---------------------------- MODULE Spec2Model ----------------------------
(***************************************************************************)
(* Model of pricehistory/pricehistory.py: the back-adjustment of daily     *)
(* closing prices (PriceHistory._adj_price_calculator), the grouping and   *)
(* final sort around it (PriceHistory._adjust_price), the per-instrument   *)
(* fetch (PriceHistory._fetch_symbol_data) and the thread-pool fan-out of  *)
(* PriceHistory.get.                                                       *)
(*                                                                         *)
(* Python objects.  A record is a dict; a list holds references to dicts.  *)
(* The dicts of one call live in a heap, a sequence of dict values, and a  *)
(* reference is an index into it.  The list a caller passes in is the heap *)
(* itself read in index order, so an assignment rec['ret'] = ... through   *)
(* any alias shows in the caller's list.  A key a dict does not (yet)      *)
(* hold, and the value None, are the empty tuple <<>>; a present value v   *)
(* is <<v>>.                                                               *)
(*                                                                         *)
(* Numbers.  Python floats are modelled by the exact rationals they stand  *)
(* for: [num, den, exp] is num/den * 10^(EpsDigits*exp), in lowest terms   *)
(* with den > 0.  The exponent keeps 1e-9 and its powers exact without     *)
(* leaving the range of TLC's integers.  Rounding is not modelled.         *)
(***************************************************************************)
EXTENDS Integers, Sequences, FiniteSets, TLC

VARIABLES
    pc,          \* position of the calling thread
    data_list,   \* the list of record dicts handed to the adjustment (the
                 \* heap of the call); in get, all_data
    grouped,     \* _adjust_price's dict of groups, in insertion order
    result,      \* what the call under test returned or raised
    is_option,   \* get's argument
    firms_info,  \* the (symbol, id) pairs Market.get_firms_info returned
    max_workers, \* get's argument, the size of the thread pool
    responses,   \* what the provider answers for each firm's request
    futures,     \* the futures submitted so far, in submission order
    next_future  \* position of `for future in futures`

getVars == <<is_option, firms_info, max_workers, responses, futures, next_future>>

vars == <<pc, data_list, grouped, result, getVars>>

---------------------------------------------------------------------------
(* Bounds of the model *)

\* Most records in one instrument's list handed to _adj_price_calculator.
MaxLen == 3
\* Most records in a list checked over every combination of price values.
MaxShort == 2
\* Most records in the list of several instruments handed to _adjust_price.
MaxRecords == 3
\* Most firms in one call of get.
MaxFirms == 3
\* Greatest max_workers tried.
MaxWorkers == 3

---------------------------------------------------------------------------
(* Values *)

None == <<>>

Some(v) == <<v>>

\* Python truthiness of an optional float: None and 0.0 are falsy.
Truthy(x) == x # None /\ x[1] # 0

\* 1e-9 is 10^(-EpsDigits).
EpsDigits == 9

RECURSIVE Gcd(_, _)
Gcd(a, b) == IF b = 0 THEN a ELSE Gcd(b, a % b)

Rat(n, d, e) ==
    IF n = 0 THEN [num |-> 0, den |-> 1, exp |-> 0]
    ELSE LET g == Gcd(n, d)
         IN  [num |-> n \div g, den |-> d \div g, exp |-> e]

FromFloat(v) == Rat(v, 1, 0)

Zero == Rat(0, 1, 0)

One == Rat(1, 1, 0)

\* The literal 1e-9.
Epsilon == Rat(1, 1, -1)

IsZero(a) == a.num = 0

Mul(a, b) == Rat(a.num * b.num, a.den * b.den, a.exp + b.exp)

\* a / b for b # 0 (Python raises ZeroDivisionError otherwise; callers test).
Div(a, b) == Rat(a.num * b.den, a.den * b.num, a.exp - b.exp)

---------------------------------------------------------------------------
(* sorted(), which is stable, also under reverse=True *)

\* A sort that ignores reverse=: it always takes the greatest date first.
FirstExtremeAlwaysGreatest(heap, refs, desc) ==
    CHOOSE i \in 1..Len(refs) :
        /\ \A j \in 1..Len(refs) : heap[refs[j]].date <= heap[refs[i]].date
        /\ \A j \in 1..(i - 1) : heap[refs[j]].date # heap[refs[i]].date

\* The position in refs of the first reference whose date is extreme:
\* greatest when desc, least otherwise.
FirstExtreme(heap, refs, desc) ==
    CHOOSE i \in 1..Len(refs) :
        /\ \A j \in 1..Len(refs) :
              IF desc THEN heap[refs[j]].date <= heap[refs[i]].date
                      ELSE heap[refs[j]].date >= heap[refs[i]].date
        /\ \A j \in 1..(i - 1) : heap[refs[j]].date # heap[refs[i]].date

Remove(s, i) == [k \in 1..(Len(s) - 1) |-> IF k < i THEN s[k] ELSE s[k + 1]]

RECURSIVE SortedByDate(_, _, _)
SortedByDate(heap, refs, desc) ==
    IF refs = <<>> THEN <<>>
    ELSE LET i == FirstExtreme(heap, refs, desc)
         IN  <<refs[i]>> \o SortedByDate(heap, Remove(refs, i), desc)

---------------------------------------------------------------------------
(* PriceHistory._adj_price_calculator *)

\* What a division by zero yields in place of a number: the call raises.
ZeroDivisionError == [num |-> 0, den |-> 0, exp |-> 0]

\* Python's a / b on floats.
TrueDiv(a, b) == IF IsZero(b) THEN ZeroDivisionError ELSE Div(a, b)

\* rec['close'] if rec['close'] else 0.0
ClosePrice(rec) == IF Truthy(rec.close) THEN FromFloat(rec.close[1]) ELSE Zero

\* The fallback taken for None only: a previous close of 0.0 is kept.
YesterdayPriceNoneOnly(rec) ==
    IF rec.yesterday # None THEN FromFloat(rec.yesterday[1]) ELSE Epsilon

\* rec['yesterday'] if rec['yesterday'] else 1e-9
YesterdayPrice(rec) ==
    IF Truthy(rec.yesterday) THEN FromFloat(rec.yesterday[1]) ELSE Epsilon

\* records_desc[0]['close'] if records_desc[0]['close'] else 0.0
LatestClosePrice(heap, records_desc) == ClosePrice(heap[records_desc[1]])

\* close_price / yesterday_price
Ret(rec) == TrueDiv(ClosePrice(rec), YesterdayPrice(rec))

\* The loop that sets rec['ret'] and rec['cumprod'], from position idx on.
RECURSIVE RetLoop(_, _, _, _)
RetLoop(heap, records_desc, idx, cumprod_value) ==
    IF idx > Len(records_desc) THEN [heap |-> heap, exc |-> "none"]
    ELSE LET ref == records_desc[idx]
             r   == Ret(heap[ref])
             c   == Mul(cumprod_value, r)
         IN  IF r = ZeroDivisionError
             THEN [heap |-> heap, exc |-> "ZeroDivisionError"]
             ELSE RetLoop([heap EXCEPT ![ref].ret = Some(r),
                                       ![ref].cumprod = Some(c)],
                          records_desc, idx + 1, c)

\* The unshifted price scaled the wrong way: multiplied by the factor.
UnshiftedAdjPriceTimes(latest_close_price, cumprod) ==
    IF IsZero(cumprod) THEN Zero ELSE Mul(latest_close_price, cumprod)

\* One entry of adj_prices before the shift.
UnshiftedAdjPrice(latest_close_price, cumprod) ==
    IF IsZero(cumprod) THEN Zero ELSE TrueDiv(latest_close_price, cumprod)

AdjPrices(heap, records_desc, latest_close_price) ==
    [i \in 1..Len(records_desc) |->
        UnshiftedAdjPrice(latest_close_price, heap[records_desc[i]].cumprod[1])]

\* The naive formula: no entry moves.
ShiftLoopNoShift(adj_prices, i) == adj_prices

\* for i in range(len(adj_prices) - 1, 0, -1): adj_prices[i] = adj_prices[i-1]
RECURSIVE ShiftLoop(_, _)
ShiftLoop(adj_prices, i) ==
    IF i <= 1 THEN adj_prices
    ELSE ShiftLoop([adj_prices EXCEPT ![i] = adj_prices[i - 1]], i - 1)

\* The shift without the final adj_prices[0] = latest_close_price.
ShiftWithoutAnchor(adj_prices, latest_close_price) ==
    [i \in 1..Len(adj_prices) |->
        IF i = 1 THEN adj_prices[1] ELSE adj_prices[i - 1]]

Shift(adj_prices, latest_close_price) ==
    [ShiftLoop(adj_prices, Len(adj_prices)) EXCEPT ![1] = latest_close_price]

\* for i, rec in enumerate(records_desc): rec['adj_price'] = adj_prices[i]
RECURSIVE AssignBack(_, _, _, _)
AssignBack(heap, records_desc, adj_prices, i) ==
    IF i > Len(records_desc) THEN heap
    ELSE AssignBack([heap EXCEPT ![records_desc[i]].adj_price = Some(adj_prices[i])],
                    records_desc, adj_prices, i + 1)

\* The call on the list `records` of references into heap: the heap after
\* it, the exception it raised ("none": it returned) and the list returned.
AdjPriceCalculator(heap, records) ==
    LET records_desc == SortedByDate(heap, records, TRUE)
    IN  IF records_desc = <<>>
        THEN [heap |-> heap, exc |-> "IndexError", ret |-> <<>>]
        ELSE
        LET latest_close_price == LatestClosePrice(heap, records_desc)
            looped == RetLoop(heap, records_desc, 1, One)
        IN  IF looped.exc # "none"
            THEN [heap |-> looped.heap, exc |-> looped.exc, ret |-> <<>>]
            ELSE
            LET adj_prices == AdjPrices(looped.heap, records_desc, latest_close_price)
            IN  IF \E i \in 1..Len(adj_prices) : adj_prices[i] = ZeroDivisionError
                THEN [heap |-> looped.heap, exc |-> "ZeroDivisionError", ret |-> <<>>]
                ELSE
                LET assigned == AssignBack(looped.heap, records_desc,
                                           Shift(adj_prices, latest_close_price), 1)
                IN  [heap |-> assigned, exc |-> "none",
                     ret |-> SortedByDate(assigned, records_desc, FALSE)]

---------------------------------------------------------------------------
(* PriceHistory._adjust_price *)

\* A dict key taken from the display symbol instead of the id.
GroupKeyBySymbol(rec) == rec.symbol

\* stock_id = record['id']
GroupKey(rec) == rec.id

\* The grouping loop from record i on; grouped is the dict as the sequence
\* of its items [key, records] in insertion order.
RECURSIVE GroupLoop(_, _, _)
GroupLoop(heap, i, groups) ==
    IF i > Len(heap) THEN groups
    ELSE LET stock_id == GroupKey(heap[i])
             with_key ==
                 IF \E g \in DOMAIN groups : groups[g].key = stock_id
                 THEN groups
                 ELSE Append(groups, [key |-> stock_id, records |-> <<>>])
         IN  GroupLoop(heap, i + 1,
                 [g \in DOMAIN with_key |->
                     IF with_key[g].key = stock_id
                     THEN [with_key[g] EXCEPT !.records = Append(@, i)]
                     ELSE with_key[g]])

\* The loop over grouped.items() from group g on.
RECURSIVE AdjustLoop(_, _, _, _)
AdjustLoop(heap, groups, g, final_results) ==
    IF g > Len(groups) THEN [heap |-> heap, exc |-> "none", ret |-> final_results]
    ELSE LET adjusted == AdjPriceCalculator(heap, groups[g].records)
         IN  IF adjusted.exc # "none"
             THEN [heap |-> adjusted.heap, exc |-> adjusted.exc, ret |-> <<>>]
             ELSE AdjustLoop(adjusted.heap, groups, g + 1,
                             final_results \o adjusted.ret)

\* A sort key that leaves the id out.
IdDateLessByDateOnly(a, b) == a.date < b.date

\* (a['id'], a['date']) < (b['id'], b['date']), as Python compares tuples.
IdDateLess(a, b) == a.id < b.id \/ (a.id = b.id /\ a.date < b.date)

\* final_results.sort(key=lambda x: (x['id'], x['date'])), a stable sort.
RECURSIVE SortedByIdDate(_, _)
SortedByIdDate(heap, refs) ==
    IF refs = <<>> THEN <<>>
    ELSE LET i == CHOOSE i \in 1..Len(refs) :
                      /\ \A j \in 1..Len(refs) :
                            ~IdDateLess(heap[refs[j]], heap[refs[i]])
                      /\ \A j \in 1..(i - 1) :
                            IdDateLess(heap[refs[i]], heap[refs[j]])
         IN  <<refs[i]>> \o SortedByIdDate(heap, Remove(refs, i))

---------------------------------------------------------------------------
(* Inputs *)

\* Closing prices as the fetch leaves them: None, 0.0 or a positive float.
Prices == {None, Some(0), Some(50), Some(100)}

\* <<close, yesterday>> of one record: every pair of Prices.
AllQuotes == Prices \X Prices

\* The pairs drawn for the longer lists: no discontinuity (100/100, 50/50),
\* a discontinuity (100/50), a null and a zero close, a null previous close.
Quotes ==
    { <<Some(100), Some(100)>>, <<Some(50), Some(50)>>,
      <<Some(100), Some(50)>>, <<None, Some(100)>>, <<Some(0), Some(100)>>,
      <<Some(100), None>> }

RawRecord(symbol, id, date, quote) ==
    [symbol |-> symbol, id |-> id, date |-> date, close |-> quote[1],
     yesterday |-> quote[2], ret |-> None, cumprod |-> None, adj_price |-> None]

\* The code reads a date only to compare it with another date, so the dates
\* of an n-record list are drawn as ranks: every map of the n positions onto
\* some 1..k, which gives every order and every pattern of equal dates.
DateRanks(n) ==
    {d \in [1..n -> 1..n] :
        \E k \in 0..n : {d[i] : i \in 1..n} = 1..k}

\* list is a list of n records of instrument `id`, of any dates and with
\* quotes from `quotes`.
IsInstrumentList(list, symbol, id, quotes, n) ==
    \E d \in DateRanks(n) : \E q \in [1..n -> quotes] :
        list = [i \in 1..n |-> RawRecord(symbol, id, d[i], q[i])]

\* The list [0, 1, ..., n-1] of references to every dict of a heap.
AllRefs(heap) == [i \in 1..Len(heap) |-> i]

---------------------------------------------------------------------------
(* _adj_price_calculator called on one instrument's records *)

InitCalc ==
    /\ pc = "call"
    /\ \E n \in 1..MaxLen : IsInstrumentList(data_list, <<"a">>, 1, Quotes, n)
    /\ grouped = <<>>
    /\ result = [exc |-> "none", ret |-> <<>>]
    /\ is_option = FALSE
    /\ firms_info = <<>>
    /\ max_workers = 1
    /\ responses = <<>>
    /\ futures = <<>>
    /\ next_future = 1

\* The same call, on shorter lists over every pair of price values.
InitCalcAll ==
    /\ pc = "call"
    /\ \E n \in 1..MaxShort : IsInstrumentList(data_list, <<"a">>, 1, AllQuotes, n)
    /\ grouped = <<>>
    /\ result = [exc |-> "none", ret |-> <<>>]
    /\ is_option = FALSE
    /\ firms_info = <<>>
    /\ max_workers = 1
    /\ responses = <<>>
    /\ futures = <<>>
    /\ next_future = 1

CallAdjPriceCalculator ==
    /\ pc = "call"
    /\ LET r == AdjPriceCalculator(data_list, AllRefs(data_list))
       IN  /\ data_list' = r.heap
           /\ result' = [exc |-> r.exc, ret |-> r.ret]
    /\ pc' = "done"
    /\ UNCHANGED <<grouped, getVars>>

NextCalc == CallAdjPriceCalculator

SpecCalc == InitCalc /\ [][NextCalc]_vars

SpecCalcAll == InitCalcAll /\ [][NextCalc]_vars

---------------------------------------------------------------------------
(* Properties of _adj_price_calculator *)

\* What the call was given: the raw fields, which no step assigns.
Close(rec) == IF rec.close = None THEN Zero ELSE FromFloat(rec.close[1])

\* close / previous_close with the documented fallbacks: a null close counts
\* as 0.0, a null or zero previous_close as 1e-9.
CloseOverYesterday(rec) ==
    IF rec.yesterday = None \/ rec.yesterday[1] = 0
    THEN Rat(Close(rec).num, 1, 1)
    ELSE Rat(Close(rec).num, rec.yesterday[1], 0)

GreatestDate == CHOOSE d \in {data_list[i].date : i \in DOMAIN data_list} :
                    \A i \in DOMAIN data_list : data_list[i].date <= d

\* The product of close / previous_close over the records at positions
\* 1..i of the list whose date is after lo and not after hi.
RECURSIVE CompoundedReturn(_, _, _)
CompoundedReturn(lo, hi, i) ==
    IF i = 0 THEN One
    ELSE IF lo < data_list[i].date /\ data_list[i].date <= hi
         THEN Mul(CompoundedReturn(lo, hi, i - 1), CloseOverYesterday(data_list[i]))
         ELSE CompoundedReturn(lo, hi, i - 1)

\* The product of close / previous_close over the first k of refs.
RECURSIVE CumulativeReturn(_, _)
CumulativeReturn(refs, k) ==
    IF k = 0 THEN One
    ELSE Mul(CumulativeReturn(refs, k - 1), CloseOverYesterday(data_list[refs[k]]))

\* C1: the call returns a list as long as its input that holds every input
\* record exactly once, and nothing else, with dates non-decreasing.
AdjOutputIsSortedPermutation ==
    pc = "done" =>
        /\ result.exc = "none"
        /\ Len(result.ret) = Len(data_list)
        /\ \A k \in DOMAIN result.ret : result.ret[k] \in DOMAIN data_list
        /\ \A r \in DOMAIN data_list :
              Cardinality({k \in DOMAIN result.ret : result.ret[k] = r}) = 1
        /\ \A k \in 1..(Len(result.ret) - 1) :
              data_list[result.ret[k]].date <= data_list[result.ret[k + 1]].date

\* A call on three records, two of them of one date, given out of order.
AdjOutputReordered ==
    /\ pc = "done"
    /\ Len(data_list) = 3
    /\ data_list[1].date = 2 /\ data_list[2].date = 1 /\ data_list[3].date = 2
    /\ result.ret = <<2, 1, 3>>

\* C2 as stated: every record that carries the greatest date has adj_price
\* equal to its own close (0.0 for a null close).
EveryLatestRecordKeepsItsClose ==
    pc = "done" =>
        \A i \in DOMAIN data_list :
            data_list[i].date = GreatestDate =>
                data_list[i].adj_price = Some(Close(data_list[i]))

\* C2 as the code has it: the record sorted first, which among the records
\* carrying the greatest date is the one that comes first in the input, has
\* adj_price equal to its own close (0.0 for a null close).
FirstLatestRecordKeepsItsClose ==
    pc = "done" =>
        \A i \in DOMAIN data_list :
            (/\ data_list[i].date = GreatestDate
             /\ \A j \in 1..(i - 1) : data_list[j].date # GreatestDate)
            => data_list[i].adj_price = Some(Close(data_list[i]))

\* The latest record is given last, after older ones, and its return is
\* not 1, so that the unshifted price differs from its close.
LatestRecordAnchored ==
    /\ pc = "done"
    /\ Len(data_list) = 3
    /\ data_list[3].date = 3 /\ data_list[2].date = 1 /\ data_list[1].date = 2
    /\ data_list[3].close = Some(100) /\ data_list[3].yesterday = Some(50)
    /\ data_list[3].adj_price = Some(FromFloat(100))

\* C3 as stated: for any two records dated Dold < Dnew,
\* adj_price(Dold) * (the product of ret over the records dated after Dold
\* up to and including Dnew) = adj_price(Dnew), whatever the group holds.
AdjRatioIsCompoundedReturn ==
    pc = "done" =>
        \A o \in DOMAIN data_list : \A n \in DOMAIN data_list :
            data_list[o].date < data_list[n].date =>
                Mul(data_list[o].adj_price[1],
                    CompoundedReturn(data_list[o].date, data_list[n].date,
                                     Len(data_list)))
                = data_list[n].adj_price[1]

\* No two records dated from lo to hi share a date, and every record dated
\* after lo up to hi has a close that is neither null nor zero.
CleanSpan(lo, hi) ==
    /\ \A i \in DOMAIN data_list : \A j \in DOMAIN data_list :
          (/\ i # j
           /\ lo <= data_list[i].date /\ data_list[i].date <= hi
           /\ data_list[j].date = data_list[i].date) => FALSE
    /\ \A i \in DOMAIN data_list :
          (lo < data_list[i].date /\ data_list[i].date <= hi)
          => Truthy(data_list[i].close)

\* C3 as the code has it: the same equation for any two records dated
\* Dold < Dnew such that the records dated from Dold to Dnew have distinct
\* dates and none of those after Dold has a null or zero close.
AdjRatioIsCompoundedReturnOnCleanSpan ==
    pc = "done" =>
        \A o \in DOMAIN data_list : \A n \in DOMAIN data_list :
            (/\ data_list[o].date < data_list[n].date
             /\ CleanSpan(data_list[o].date, data_list[n].date))
            => Mul(data_list[o].adj_price[1],
                   CompoundedReturn(data_list[o].date, data_list[n].date,
                                    Len(data_list)))
               = data_list[n].adj_price[1]

\* Three days with distinct dates and no null or zero close, a discontinuity
\* on the second (its previous close is half the first day's close) and a
\* null previous close on the third: the adjusted prices of the first two
\* days differ from each other and from the first day's raw close.
AdjRatioAcrossDiscontinuity ==
    /\ pc = "done"
    /\ Len(data_list) = 3
    /\ data_list[1].date = 1 /\ data_list[2].date = 2 /\ data_list[3].date = 3
    /\ data_list[1].close = Some(100)
    /\ data_list[2].close = Some(100) /\ data_list[2].yesterday = Some(50)
    /\ data_list[3].close = Some(100) /\ data_list[3].yesterday = None
    /\ CleanSpan(1, 3)
    /\ data_list[1].adj_price # Some(Close(data_list[1]))
    /\ data_list[2].adj_price # data_list[1].adj_price

\* C9: with the records taken most recent first, the first has adj_price =
\* latest_close and the k-th (k >= 1) has latest_close / cumprod of the one
\* before it, 0.0 when that cumprod is 0, cumprod being the running product
\* of ret = close / previous_close; and the two-record example of the
\* specification comes out as ret 1.0, 1.0 and adj_price 100, 100.
ShiftedAdjustedPrices ==
    pc = "done" =>
        LET desc == SortedByDate(data_list, AllRefs(data_list), TRUE)
            latest == Close(data_list[desc[1]])
        IN  /\ result.exc = "none"
            /\ data_list[desc[1]].adj_price = Some(latest)
            /\ \A k \in DOMAIN desc :
                  /\ data_list[desc[k]].ret = Some(CloseOverYesterday(data_list[desc[k]]))
                  /\ data_list[desc[k]].cumprod = Some(CumulativeReturn(desc, k))
            /\ \A k \in 2..Len(desc) :
                  data_list[desc[k]].adj_price =
                      Some(IF IsZero(CumulativeReturn(desc, k - 1)) THEN Zero
                           ELSE Div(latest, CumulativeReturn(desc, k - 1)))
            /\ \A i \in DOMAIN data_list : \A j \in DOMAIN data_list :
                  (/\ Len(data_list) = 2
                   /\ data_list[i].date < data_list[j].date
                   /\ data_list[j].close = Some(100) /\ data_list[j].yesterday = Some(100)
                   /\ data_list[i].close = Some(50) /\ data_list[i].yesterday = Some(50))
                  => /\ data_list[j].ret = Some(One) /\ data_list[i].ret = Some(One)
                     /\ data_list[j].adj_price = Some(FromFloat(100))
                     /\ data_list[i].adj_price = Some(FromFloat(100))

\* The two-record example, and so a shift of one position, has run.
ShiftExampleRan ==
    /\ pc = "done"
    /\ Len(data_list) = 2
    /\ data_list[1].date = 1 /\ data_list[2].date = 2
    /\ data_list[2].close = Some(100) /\ data_list[2].yesterday = Some(100)
    /\ data_list[1].close = Some(50) /\ data_list[1].yesterday = Some(50)
    /\ data_list[1].adj_price = Some(FromFloat(100))

\* C4: the call never raises, whatever mix of null, zero and positive close
\* and previous_close it is given: a null close counts as 0.0, a null
\* previous_close as 1e-9, a record with both null gets ret = 0.0, and a
\* cumulative factor of 0 gives the unshifted price 0.0 (which the shift
\* hands to the next older record).
CalculatorIsTotal ==
    pc = "done" =>
        LET desc == SortedByDate(data_list, AllRefs(data_list), TRUE)
        IN  /\ result.exc = "none"
            /\ \A i \in DOMAIN data_list :
                  LET rec == data_list[i]
                  IN  /\ rec.close = None => rec.ret = Some(Zero)
                      /\ (rec.yesterday = None /\ rec.close # None)
                         => rec.ret = Some(Rat(rec.close[1], 1, 1))
                      /\ (rec.close = None /\ rec.yesterday = None)
                         => rec.ret = Some(Zero)
            /\ \A k \in 2..Len(desc) :
                  data_list[desc[k - 1]].cumprod = Some(Zero)
                  => data_list[desc[k]].adj_price = Some(Zero)

\* A record with both prices null follows a latest record whose previous
\* close is zero and whose close is positive: the factor reaches 0 at the
\* second record only.
DegenerateRecordsAdjusted ==
    /\ pc = "done"
    /\ Len(data_list) = 2
    /\ data_list[1].date = 1 /\ data_list[2].date = 2
    /\ data_list[1].close = None /\ data_list[1].yesterday = None
    /\ data_list[2].close = Some(100) /\ data_list[2].yesterday = Some(0)
    /\ data_list[1].ret = Some(Zero)
    /\ data_list[2].ret = Some(Rat(100, 1, 1))

---------------------------------------------------------------------------
(* _adjust_price called on a list of records of several instruments *)

Symbols == {<<"a">>, <<"b">>}

Ids == {1, 2}

\* The quote of every record in a list of several instruments.
OneQuote == <<Some(100), Some(50)>>

\* list is a list of n records over Symbols and Ids, of any dates.
IsMixedList(list, n) ==
    \E s \in [1..n -> Symbols] : \E id \in [1..n -> Ids] :
        \E d \in DateRanks(n) :
            list = [i \in 1..n |-> RawRecord(s[i], id[i], d[i], OneQuote)]

InitAdjust ==
    /\ pc = "adjust"
    /\ \E n \in 0..MaxRecords : IsMixedList(data_list, n)
    /\ grouped = <<>>
    /\ result = [exc |-> "none", ret |-> <<>>]
    /\ is_option = FALSE
    /\ firms_info = <<>>
    /\ max_workers = 1
    /\ responses = <<>>
    /\ futures = <<>>
    /\ next_future = 1

\* Lines 105-114: the early return on an empty list, else the grouping.
GroupRecords ==
    /\ pc = "adjust"
    /\ IF data_list = <<>>
       THEN /\ pc' = "done"
            /\ result' = [exc |-> "none", ret |-> <<>>]
            /\ UNCHANGED grouped
       ELSE /\ pc' = "grouped"
            /\ grouped' = GroupLoop(data_list, 1, <<>>)
            /\ UNCHANGED result
    /\ UNCHANGED <<data_list, getVars>>

\* Lines 116-126: adjust every group, collect, sort, return.
AdjustGroups ==
    /\ pc = "grouped"
    /\ LET r == AdjustLoop(data_list, grouped, 1, <<>>)
       IN  /\ data_list' = r.heap
           /\ result' = [exc |-> r.exc,
                         ret |-> IF r.exc = "none"
                                 THEN SortedByIdDate(r.heap, r.ret) ELSE <<>>]
    /\ pc' = "done"
    /\ UNCHANGED <<grouped, getVars>>

NextAdjust == GroupRecords \/ AdjustGroups

SpecAdjust == InitAdjust /\ [][NextAdjust]_vars

---------------------------------------------------------------------------
(* Properties of _adjust_price *)

CountWithId(refs, id) ==
    Cardinality({k \in DOMAIN refs : data_list[refs[k]].id = id})

\* C7: grouping is by id alone: two records are in one group exactly when
\* their ids are equal, whatever their symbols, so the group of an id holds
\* as many records as the input has with that id; and so does the output.
GroupingIsById ==
    /\ pc \in {"grouped", "done"} =>
          /\ \A i \in DOMAIN data_list :
                Cardinality({<<g, k>> \in (DOMAIN grouped) \X (DOMAIN data_list) :
                                /\ k \in DOMAIN grouped[g].records
                                /\ grouped[g].records[k] = i}) = 1
          /\ \A g \in DOMAIN grouped : \A h \in DOMAIN grouped :
                \A k \in DOMAIN grouped[g].records :
                    \A l \in DOMAIN grouped[h].records :
                        (g = h) <=> (data_list[grouped[g].records[k]].id
                                     = data_list[grouped[h].records[l]].id)
          /\ \A g \in DOMAIN grouped :
                Len(grouped[g].records) =
                    CountWithId(AllRefs(data_list),
                                data_list[grouped[g].records[1]].id)
    /\ pc = "done" =>
          /\ result.exc = "none"
          /\ \A id \in Ids :
                CountWithId(result.ret, id) = CountWithId(AllRefs(data_list), id)

\* Two instruments under one display symbol, and one instrument under two
\* symbols, have been grouped and adjusted.
SymbolsCollided ==
    /\ pc = "done"
    /\ Len(data_list) = 3
    /\ data_list[1].id = 1 /\ data_list[1].symbol = <<"a">>
    /\ data_list[2].id = 2 /\ data_list[2].symbol = <<"a">>
    /\ data_list[3].id = 1 /\ data_list[3].symbol = <<"b">>
    /\ Len(grouped) = 2
    /\ grouped[1].records = <<1, 3>>
    /\ grouped[2].records = <<2>>

\* C8: the list _adjust_price returns is ordered by (id, date) ascending,
\* and an empty input gives an empty output.
AdjustOutputSortedByIdDate ==
    pc = "done" =>
        /\ result.exc = "none"
        /\ Len(result.ret) = Len(data_list)
        /\ \A k \in 1..(Len(result.ret) - 1) :
              LET a == data_list[result.ret[k]]
                  b == data_list[result.ret[k + 1]]
              IN  a.id < b.id \/ (a.id = b.id /\ a.date <= b.date)
        /\ data_list = <<>> => result.ret = <<>>

\* Records of two instruments given interleaved and latest first come out
\* regrouped and in date order.
AdjustOutputRegrouped ==
    /\ pc = "done"
    /\ Len(data_list) = 3
    /\ data_list[1].id = 2 /\ data_list[1].date = 2
    /\ data_list[2].id = 1 /\ data_list[2].date = 3
    /\ data_list[3].id = 2 /\ data_list[3].date = 1
    /\ result.ret = <<2, 3, 1>>

\* C6: the adjustment leaves its input as it was: after the call no input
\* record holds a field it did not hold before it.
InputRecordsUntouched ==
    pc = "done" =>
        \A i \in DOMAIN data_list :
            /\ data_list[i].ret = None
            /\ data_list[i].cumprod = None
            /\ data_list[i].adj_price = None

---------------------------------------------------------------------------
(* PriceHistory._fetch_symbol_data *)

\* The character the pattern anchors at the end of a symbol (Arabic hah).
Hah == "hah"

Digits == {"0", "1", "2", "3", "4", "5", "6", "7", "8", "9"}

\* bad_symbol_pattern.search(symbol), the pattern being [0-9]|<hah>$ :
\* a digit anywhere, or hah as the last character.
BadSymbol(symbol) ==
    \/ \E i \in DOMAIN symbol : symbol[i] \in Digits
    \/ (symbol # <<>> /\ symbol[Len(symbol)] = Hah)

\* to_numeric: float(value), None for a value float() rejects (None).
ToNumeric(value) == IF value = None THEN None ELSE Some(value[1])

\* What the provider's answer is made of: how the transport ended, the
\* HTTP status, what the body parses to, what closingPriceDaily holds, and
\* its entries when it is a list.
Response(transport, status, json, cpd, entries) ==
    [transport |-> transport, status |-> status, json |-> json, cpd |-> cpd,
     entries |-> entries]

\* The try block: session.get, raise_for_status, resp.json().get(...).
\* TRUE when it raises, which the except clause turns into `return []`.
RequestRaises(response) ==
    \/ response.transport # "ok"       \* Timeout, ConnectionError
    \/ response.status >= 400          \* HTTPError
    \/ response.json = "invalid"       \* JSONDecodeError
    \/ response.json # "object"        \* .get on a list: AttributeError

\* One dict of results, from one entry of closingPriceDaily.
FetchedRecord(symbol, rec) ==
    [symbol |-> symbol, id |-> rec.insCode, date |-> rec.dEven,
     close |-> ToNumeric(rec.pClosing),
     yesterday |-> ToNumeric(rec.priceYesterday),
     ret |-> None, cumprod |-> None, adj_price |-> None]

\* The call: what it raised ("none": it returned) and the list returned.
FetchSymbolData(firm, response, option) ==
    IF ~option /\ BadSymbol(firm.symbol) THEN [exc |-> "none", ret |-> <<>>]
    ELSE IF RequestRaises(response) THEN [exc |-> "none", ret |-> <<>>]
    ELSE IF response.cpd = "absent" THEN [exc |-> "none", ret |-> <<>>]
    ELSE IF response.cpd # "list"
         THEN [exc |-> "TypeError", ret |-> <<>>]       \* for rec in None
    ELSE IF \E k \in DOMAIN response.entries : ~response.entries[k].object
         THEN [exc |-> "AttributeError", ret |-> <<>>]  \* rec.get on a non-dict
    ELSE [exc |-> "none",
          ret |-> [k \in DOMAIN response.entries |->
                      FetchedRecord(firm.symbol, response.entries[k])]]

---------------------------------------------------------------------------
(* PriceHistory.get *)

\* The firms of the catalog: each firm's id is its position; the second
\* symbol holds a digit and the third ends in hah.
FirmSymbol(i) ==
    CASE i = 2 -> <<"f", "1">>
      [] i = 3 -> <<"f", Hah>>
      [] OTHER -> <<"f">>

Firm(i) == [symbol |-> FirmSymbol(i), id |-> i]

Entry(insCode, dEven, pClosing, priceYesterday) ==
    [object |-> TRUE, insCode |-> insCode, dEven |-> dEven,
     pClosing |-> pClosing, priceYesterday |-> priceYesterday]

\* An entry of closingPriceDaily that is not a JSON object.
NotAnObject ==
    [object |-> FALSE, insCode |-> 0, dEven |-> 0, pClosing |-> None,
     priceYesterday |-> None]

\* The daily list the provider holds for a firm, latest day first.
GoodEntries(id) ==
    IF id % 2 = 1
    THEN <<Entry(id, 2, Some(100), Some(50)), Entry(id, 1, None, Some(100))>>
    ELSE <<Entry(id, 1, Some(50), Some(50))>>

\* The answers a request for firm `id` may get.
Responses(id) ==
    { Response("timeout", 0, "invalid", "absent", <<>>),
      Response("error", 0, "invalid", "absent", <<>>),
      Response("ok", 500, "object", "list", GoodEntries(id)),
      Response("ok", 200, "invalid", "absent", <<>>),
      Response("ok", 200, "array", "absent", <<>>),
      Response("ok", 200, "object", "absent", <<>>),
      Response("ok", 200, "object", "null", <<>>),
      Response("ok", 200, "object", "number", <<>>),
      Response("ok", 200, "object", "list", <<NotAnObject>> \o GoodEntries(id)),
      Response("ok", 200, "object", "list", GoodEntries(id)) }

Future(state, exc, ret) == [state |-> state, exc |-> exc, ret |-> ret]

\* The answers tried when every schedule of a larger pool is explored: a
\* call that returns nothing, the two that raise, and one that returns
\* records.
FewResponses(id) ==
    { Response("timeout", 0, "invalid", "absent", <<>>),
      Response("ok", 200, "object", "null", <<>>),
      Response("ok", 200, "object", "list", <<NotAnObject>> \o GoodEntries(id)),
      Response("ok", 200, "object", "list", GoodEntries(id)) }

\* get is entered: the firms are read, nothing is submitted yet; answers[i]
\* is the set of answers the request for firm i may get.
InitGetWith(answers) ==
    /\ pc = "submit"
    /\ data_list = <<>>
    /\ grouped = <<>>
    /\ result = [exc |-> "none", ret |-> <<>>]
    /\ is_option \in BOOLEAN
    /\ max_workers \in 1..MaxWorkers
    /\ \E n \in 0..MaxFirms :
          /\ firms_info = [i \in 1..n |-> Firm(i)]
          /\ \E r \in [1..n -> UNION {answers[i] : i \in 1..n}] :
                /\ \A i \in 1..n : r[i] \in answers[i]
                /\ responses = r
    /\ futures = <<>>
    /\ next_future = 1

InitGet == InitGetWith([i \in 1..MaxFirms |-> Responses(i)])

InitGetSchedules == InitGetWith([i \in 1..MaxFirms |-> FewResponses(i)])

\* executor.submit(cls._fetch_symbol_data, fi, session, is_option), once per
\* firm; the list comprehension ends when every firm has its future.
Submit ==
    /\ pc = "submit"
    /\ IF Len(futures) < Len(firms_info)
       THEN /\ futures' = Append(futures, Future("pending", "none", <<>>))
            /\ UNCHANGED pc
       ELSE /\ pc' = "collect"
            /\ UNCHANGED futures
    /\ UNCHANGED <<data_list, grouped, result, is_option, firms_info,
                   max_workers, responses, next_future>>

Running == {i \in DOMAIN futures : futures[i].state = "running"}

\* A worker thread takes the oldest work item off the (FIFO) queue; the
\* pool has at most max_workers threads.
StartFetch(i) ==
    /\ futures[i].state = "pending"
    /\ \A j \in 1..(i - 1) : futures[j].state # "pending"
    /\ Cardinality(Running) < max_workers
    /\ futures' = [futures EXCEPT ![i].state = "running"]
    /\ UNCHANGED <<pc, data_list, grouped, result, is_option, firms_info,
                   max_workers, responses, next_future>>

\* The worker's call of _fetch_symbol_data ends; its result or exception
\* is set on the future.
FinishFetch(i) ==
    /\ futures[i].state = "running"
    /\ LET r == FetchSymbolData(firms_info[i], responses[i], is_option)
       IN  futures' = [futures EXCEPT ![i] = Future("finished", r.exc, r.ret)]
    /\ UNCHANGED <<pc, data_list, grouped, result, is_option, firms_info,
                   max_workers, responses, next_future>>

\* A read of the future that does not wait for the worker.
ResultReadyNoWait(future) == TRUE

\* future.result() returns (or raises) once the future is finished.
ResultReady(future) == future.state = "finished"

\* for future in futures: all_data.extend(future.result())
Collect ==
    /\ pc = "collect"
    /\ IF next_future > Len(futures)
       THEN /\ pc' = "shutdown"
            /\ UNCHANGED <<data_list, result, next_future>>
       ELSE /\ ResultReady(futures[next_future])
            /\ IF futures[next_future].exc # "none"
               THEN /\ result' = [exc |-> futures[next_future].exc, ret |-> <<>>]
                    /\ pc' = "shutdown"
                    /\ UNCHANGED <<data_list, next_future>>
               ELSE /\ data_list' = data_list \o futures[next_future].ret
                    /\ next_future' = next_future + 1
                    /\ UNCHANGED <<pc, result>>
    /\ UNCHANGED <<grouped, is_option, firms_info, max_workers, responses,
                   futures>>

\* The pool has no work left: every submitted call has finished.
PoolIdle(futs) == \A i \in DOMAIN futs : futs[i].state = "finished"

\* Leaving the with block: executor.shutdown(wait=True), then the pending
\* exception, if any, goes on to get's caller.
Shutdown ==
    /\ pc = "shutdown"
    /\ PoolIdle(futures)
    /\ pc' = IF result.exc # "none" THEN "raised" ELSE "adjust"
    /\ UNCHANGED <<data_list, grouped, result, getVars>>

NextGet ==
    \/ Submit
    \/ \E i \in DOMAIN futures : StartFetch(i)
    \/ \E i \in DOMAIN futures : FinishFetch(i)
    \/ Collect
    \/ Shutdown
    \/ GroupRecords
    \/ AdjustGroups

SpecGet == InitGet /\ [][NextGet]_vars

SpecGetSchedules == InitGetSchedules /\ [][NextGet]_vars

---------------------------------------------------------------------------
(* Properties of get *)

\* What firm i's call returns, by the fixed answer to its request.
FetchOutcome(i) == FetchSymbolData(firms_info[i], responses[i], is_option)

\* The records of firms 1..n, in submission order.
RECURSIVE RecordsInOrder(_)
RecordsInOrder(n) ==
    IF n = 0 THEN <<>> ELSE RecordsInOrder(n - 1) \o FetchOutcome(n).ret

\* The first firm, in submission order, whose call raises; 0 if none does.
FirstRaising ==
    IF \A i \in DOMAIN firms_info : FetchOutcome(i).exc = "none" THEN 0
    ELSE CHOOSE i \in DOMAIN firms_info :
             /\ FetchOutcome(i).exc # "none"
             /\ \A j \in 1..(i - 1) : FetchOutcome(j).exc = "none"

\* _adjust_price as one function of its argument.
AdjustPrice(heap) ==
    IF heap = <<>> THEN [heap |-> heap, exc |-> "none", ret |-> <<>>]
    ELSE LET r == AdjustLoop(heap, GroupLoop(heap, 1, <<>>), 1, <<>>)
         IN  [heap |-> r.heap, exc |-> r.exc,
              ret |-> IF r.exc = "none" THEN SortedByIdDate(r.heap, r.ret)
                      ELSE <<>>]

\* C10: whatever the schedule of the pool, get collects the records in
\* submission order, ends only when every submitted call has finished, and
\* its outcome (the adjusted list, or the exception of the first firm whose
\* call raises) is the one the firms and their answers fix.
GetIsScheduleIndependent ==
    /\ pc = "collect" => data_list = RecordsInOrder(next_future - 1)
    /\ pc \in {"adjust", "grouped", "done", "raised"} =>
          /\ Len(futures) = Len(firms_info)
          /\ \A i \in DOMAIN futures : futures[i].state = "finished"
    /\ pc = "adjust" =>
          /\ FirstRaising = 0
          /\ data_list = RecordsInOrder(Len(firms_info))
    /\ pc = "raised" =>
          /\ FirstRaising # 0
          /\ result.exc = FetchOutcome(FirstRaising).exc
    /\ pc = "done" =>
          LET expected == AdjustPrice(RecordsInOrder(Len(firms_info)))
          IN  /\ FirstRaising = 0
              /\ result = [exc |-> expected.exc, ret |-> expected.ret]
              /\ data_list = expected.heap

\* The calling thread waits for the first firm's records while a worker has
\* already finished the third firm's call and another is in the second's.
FetchesFinishOutOfOrder ==
    /\ pc = "collect"
    /\ next_future = 1
    /\ Len(futures) = 3
    /\ futures[1].state = "running"
    /\ futures[2].state = "running" \/ futures[2].state = "finished"
    /\ futures[3].state = "finished" \/ futures[2].state = "finished"
    /\ \E i \in {2, 3} : futures[i].state = "finished" /\ futures[i].ret # <<>>

\* The answer is an error or a payload of the wrong shape.
FailedResponse(response) ==
    \/ response.transport # "ok"
    \/ response.status >= 400
    \/ response.json # "object"
    \/ response.cpd \in {"null", "number"}
    \/ \E k \in DOMAIN response.entries : ~response.entries[k].object

\* C5: a failed fetch gives zero records for its instrument and raises
\* nothing; get is not aborted, and the records of the other instruments
\* reach the adjusted result.
FetchFailuresAreAbsorbed ==
    /\ \A i \in DOMAIN futures :
          (futures[i].state = "finished" /\ FailedResponse(responses[i]))
          => (futures[i].exc = "none" /\ futures[i].ret = <<>>)
    /\ pc # "raised"
    /\ pc = "done" =>
          \A i \in DOMAIN firms_info :
              ~FailedResponse(responses[i]) =>
                  Cardinality({k \in DOMAIN result.ret :
                                  data_list[result.ret[k]].id = firms_info[i].id})
                  = Len(futures[i].ret)

====
